---- MODULE Spec2Model ----
(***************************************************************************)
(* The vendor-resolution engine of NetVendor: class OUIManager of          *)
(* NetVendor.py (cache, failed-lookup set, rate-limited service rotation,  *)
(* file fingerprints), as a state machine.                                 *)
(*                                                                         *)
(* A string that the code inspects character by character (a MAC address,  *)
(* an OUI key) is held by name; StringChars gives its characters.  Time is *)
(* counted in ticks of 1/TicksPerSecond seconds, fine enough that every    *)
(* interval the model reaches (2.0 * 1.5^k, 1.0 * 1.5^k) is a whole number *)
(* of ticks.                                                               *)
(*                                                                         *)
(* Functions that keep no state between calls (_normalize_mac,             *)
(* _validate_mac, analyze_file of shadowvendor/api.py, the option handling *)
(* of ShadowVendor.py's main) are each called once on an argument drawn    *)
(* from a set of inputs: called, callArg, callResult.                      *)
(***************************************************************************)
EXTENDS Naturals, Integers, Sequences, FiniteSets, TLC

----------------------------------------------------------------------------
(* Bounds of the model *)

\* 429 answers a service may give while its interval stays a whole number
\* of ticks: 1.0 s * 1.5^MaxBackoff is the finest interval reached.
MaxBackoff == 2

\* The wall clock stops being advanced at this many seconds.
MaxTime == 9

\* Longest MAC list handed to batch_lookup_vendors.
MaxBatch == 2

\* Bytes read from each end of an input file for its hash: the code's
\* 1024 * 1024, scaled down.
ChunkSize == 2

\* Longest input file, in bytes.
MaxFileLen == 3

\* Latest modification time an input file is given.
MaxMtime == 1

\* has_file_changed calls followed between two update_file_metadata calls.
MaxChecks == 3

\* Most pending saves with which a call of cleanup_cache is followed, where
\* lookups, batches and restarts are followed too.
MaxPendingAtCleanup == 2

\* MACs process_vendor_devices collects before it looks them up: the
\* code's batch_size = 10, scaled down.
batch_size == 2

TicksPerSecond == 2 ^ MaxBackoff

MaxClock == MaxTime * TicksPerSecond

----------------------------------------------------------------------------
(* Characters and MAC strings *)

HexUpper == {"0","1","2","3","4","5","6","7","8","9","A","B","C","D","E","F"}

\* The characters of every string the model handles: the MAC strings handed
\* to the manager, the keys that normalising them yields, and the vendor names.
StringChars ==
    "00:1B:63:AA:BB:CC" :> <<"0","0",":","1","B",":","6","3",":","A","A",":","B","B",":","C","C">>
 @@ "001b.6301.0203"    :> <<"0","0","1","b",".","6","3","0","1",".","0","2","0","3">>
 @@ "aa-bb-cc-dd-ee-ff" :> <<"a","a","-","b","b","-","c","c","-","d","d","-","e","e","-","f","f">>
 @@ "00:11:GG:33:44:55" :> <<"0","0",":","1","1",":","G","G",":","3","3",":","4","4",":","5","5">>
 @@ "001B63"            :> <<"0","0","1","B","6","3">>
 @@ "AABBCC"            :> <<"A","A","B","B","C","C">>
 @@ "0011GG"            :> <<"0","0","1","1","G","G">>
 @@ ""                  :> <<>>
 @@ "Apple, Inc."       :> <<"A","p","p","l","e",","," ","I","n","c",".">>
 @@ "Apple"             :> <<"A","p","p","l","e">>
 @@ "<json>"            :> <<"<","j","s","o","n",">">>
 @@ " "                 :> <<" ">>
 @@ "Unknown"           :> <<"U","n","k","n","o","w","n">>

\* the strings that are MAC addresses or keys, and those that are vendor names
MacStrings ==
    {"00:1B:63:AA:BB:CC", "001b.6301.0203", "aa-bb-cc-dd-ee-ff",
     "00:11:GG:33:44:55", "001B63", "AABBCC", "0011GG", ""}

VendorStrings == {"Apple, Inc.", "Apple", "<json>", " ", "Unknown", ""}

\* the string of the given characters
Str(chars) == CHOOSE s \in DOMAIN StringChars : StringChars[s] = chars

\* str.upper() on the characters the model uses
Upper(c) ==
    CASE c = "a" -> "A" [] c = "b" -> "B" [] c = "c" -> "C"
      [] c = "d" -> "D" [] c = "e" -> "E" [] c = "f" -> "F"
      [] c = "g" -> "G" [] OTHER -> c

UpperSeq(s) == [i \in 1..Len(s) |-> Upper(s[i])]

\* the separators without the dot of the Cisco style
IsSeparator_NoDot(c) == c \in {":", "-"}

\* the class [.:-] of line 342
IsSeparator(c) == c \in {".", ":", "-"}

NotSeparator(c) == ~IsSeparator(c)

Min(a, b) == IF a < b THEN a ELSE b

\* re.sub(r'[.:-]', '', mac.upper())[:6], on the characters of mac
NormalizeChars(chars) ==
    LET stripped == SelectSeq(UpperSeq(chars), NotSeparator)
    IN SubSeq(stripped, 1, Min(6, Len(stripped)))

\* re.match(r'^[0-9A-F]{6}', normalized), on the characters of normalized
MatchesOui(n) == Len(n) >= 6 /\ \A i \in 1..6 : n[i] \in HexUpper

\* _normalize_mac and _validate_mac of every string, computed once
NormalizedString ==
    [s \in MacStrings |-> Str(NormalizeChars(StringChars[s]))]

ValidString ==
    [s \in MacStrings |-> MatchesOui(NormalizeChars(StringChars[s]))]

\* self._normalize_mac(mac)
_normalize_mac(mac) == NormalizedString[mac]

\* self._validate_mac(mac)
_validate_mac(mac) == ValidString[mac]

\* str.replace(old, ''), on characters
RECURSIVE RemoveAll(_, _)
RemoveAll(chars, old) ==
    IF Len(chars) < Len(old) THEN chars
    ELSE IF SubSeq(chars, 1, Len(old)) = old
         THEN RemoveAll(SubSeq(chars, Len(old) + 1, Len(chars)), old)
         ELSE <<Head(chars)>> \o RemoveAll(Tail(chars), old)

\* str.strip(), on characters
RECURSIVE Strip(_)
Strip(chars) ==
    IF chars = <<>> THEN chars
    ELSE IF Head(chars) = " " THEN Strip(Tail(chars))
    ELSE IF chars[Len(chars)] = " " THEN Strip(SubSeq(chars, 1, Len(chars) - 1))
    ELSE chars

\* line 484: vendor.replace(', Inc.', '').replace(' Inc.', '')
\*              .replace(' Corporation', '').strip(), on characters
StandardizeChars(chars) ==
    Strip(RemoveAll(RemoveAll(RemoveAll(chars,
        <<",", " ", "I", "n", "c", ".">>),
        <<" ", "I", "n", "c", ".">>),
        <<" ", "C", "o", "r", "p", "o", "r", "a", "t", "i", "o", "n">>))

\* the standardized name of every string, computed once
StandardizedString ==
    [s \in VendorStrings |-> Str(StandardizeChars(StringChars[s]))]

\* The MAC strings handed to the manager: two that share the OUI 001B63
\* (colon and Cisco dot style), one of OUI AABBCC (lower case, dashes), and
\* one whose OUI part holds a non-hex character.
MacInputs ==
    {"00:1B:63:AA:BB:CC", "001b.6301.0203", "aa-bb-cc-dd-ee-ff", "00:11:GG:33:44:55"}

NoMac == ""

----------------------------------------------------------------------------
(* Python dicts: a sequence of [key, value] items in insertion order *)

DictKeys(d) == {d[i].key : i \in 1..Len(d)}

DictValues(d) == {d[i].value : i \in 1..Len(d)}

DictHas(d, k) == k \in DictKeys(d)

DictGet(d, k) == d[CHOOSE i \in 1..Len(d) : d[i].key = k].value

\* d[k] = v: an existing key keeps its place, a new key goes last
DictPut(d, k, v) ==
    IF DictHas(d, k)
    THEN [i \in 1..Len(d) |-> IF d[i].key = k THEN [key |-> k, value |-> v] ELSE d[i]]
    ELSE Append(d, [key |-> k, value |-> v])

EmptyDict == <<>>

\* Code points order the characters of a key (sort_keys=True)
CharOrder == <<"-", ".", "0","1","2","3","4","5","6","7","8","9", ":",
               "A","B","C","D","E","F","G","a","b","c","d","e","f","g">>

CharCode(c) == CHOOSE i \in 1..Len(CharOrder) : CharOrder[i] = c

RECURSIVE StrLess(_, _)
StrLess(a, b) ==
    IF b = <<>> THEN FALSE
    ELSE IF a = <<>> THEN TRUE
    ELSE IF CharCode(Head(a)) # CharCode(Head(b))
         THEN CharCode(Head(a)) < CharCode(Head(b))
         ELSE StrLess(Tail(a), Tail(b))

RECURSIVE InsertSorted(_, _)
InsertSorted(d, item) ==
    IF d = <<>> THEN <<item>>
    ELSE IF StrLess(StringChars[item.key], StringChars[Head(d).key]) THEN <<item>> \o d
    ELSE <<Head(d)>> \o InsertSorted(Tail(d), item)

RECURSIVE SortByKey(_)
SortByKey(d) ==
    IF d = <<>> THEN <<>> ELSE InsertSorted(SortByKey(Tail(d)), Head(d))

----------------------------------------------------------------------------
(* Files of the data directory.  A JSON file is absent, or holds an object  *)
(* (its items in file order); oui_cache.json may also hold text that is no  *)
(* JSON, a JSON array, or be closed to reading.                             *)

AbsentFile == [kind |-> "absent", items |-> <<>>]

ObjectFile(items) == [kind |-> "object", items |-> items]

\* json.dump(unique_cache, f, sort_keys=True, indent=2)
RECURSIVE DedupByVendor(_, _)
DedupByVendor(d, unique_cache) ==
    IF d = <<>> THEN unique_cache
    ELSE DedupByVendor(Tail(d),
            IF Head(d).value \notin DictValues(unique_cache)
            THEN DictPut(unique_cache, Head(d).key, Head(d).value)
            ELSE unique_cache)

WriteCacheFile(cache_) == ObjectFile(SortByKey(DedupByVendor(cache_, EmptyDict)))

\* {self._normalize_mac(mac): vendor for mac, vendor in raw_cache.items()}
RECURSIVE NormalizeItems(_, _)
NormalizeItems(items, acc) ==
    IF items = <<>> THEN acc
    ELSE NormalizeItems(Tail(items),
            DictPut(acc, _normalize_mac(Head(items).key), Head(items).value))

\* oui_cache.json holding text that is no JSON, or a JSON array, or closed to
\* reading (open raises an IOError)
OtherCacheFiles ==
    { [kind |-> k, items |-> <<>>] : k \in {"invalid", "json_array", "unreadable"} }

\* line 315: raw_cache.items() on a list raises an AttributeError, which
\* line 317 does not catch
LoadCacheRaises(file) == file.kind = "json_array"

\* load_cache on a manager whose cache is cache_
LoadCache(file, cache_) ==
    IF file.kind = "object" THEN NormalizeItems(file.items, EmptyDict)
    ELSE IF file.kind \in {"invalid", "unreadable"} THEN EmptyDict
    ELSE cache_

\* failed_lookups.json: absent, or a JSON array of keys
AbsentKeysFile == [kind |-> "absent", keys |-> {}]

ArrayFile(keys) == [kind |-> "array", keys |-> keys]

\* load_failed_lookups on a manager whose set is failed_
LoadFailedLookups(file, failed_) ==
    IF file.kind = "array" THEN file.keys ELSE failed_

OuiApple == "001B63"

OuiOther == "AABBCC"

NoOui == ""

AppleVendor == "Apple, Inc."

\* a body of white space
Blank == " "

\* load_processed_files on a manager whose map is processed_
LoadProcessedFiles(file, processed_) ==
    IF file.kind = "object" THEN file.items ELSE processed_

\* json.dump(self.processed_files, f, indent=2)
WriteProcessedFile(processed_) == ObjectFile(processed_)

\* The data directory a run may start from
InitialCacheFiles ==
    { AbsentFile, ObjectFile(<<[key |-> OuiApple, value |-> AppleVendor]>>) }

InitialFailedFiles == { AbsentKeysFile, ArrayFile({OuiOther}) }

----------------------------------------------------------------------------
(* Input files and their metadata *)

Byte == {0, 1}

\* the path of the input file (sys.argv[1])
ip_arp_file == "arp.txt"

Max(a, b) == IF a >= b THEN a ELSE b

\* f.seek(offset); f.read(n)
ReadAt(content, offset, n) ==
    SubSeq(content, offset + 1, Min(Len(content), offset + n))

\* hashlib.md5(data).hexdigest(): a digest stands for exactly the bytes hashed
md5(data) == [md5_of |-> data]

\* lines 252-273, of a file [content, mtime]
get_file_metadata(file) ==
    LET st_size       == Len(file.content)
        start_content == ReadAt(file.content, 0, ChunkSize)
        end_content   == ReadAt(file.content, Max(0, st_size - ChunkSize), st_size)
    IN  [size  |-> st_size,
         mtime |-> file.mtime,
         hash  |-> md5(start_content \o end_content)]

\* the input file a run starts from: empty, written at time 0
InitialInputFile == [content |-> <<>>, mtime |-> 0]

----------------------------------------------------------------------------
(* The lookup services and what they may answer *)

max_pending_saves == 50

\* self.api_services: index 0 is macvendors (plain text), 1 is maclookup (JSON)
api_services ==
    << [name |-> "macvendors", rate_limit |-> 2 * TicksPerSecond],
       [name |-> "maclookup",  rate_limit |-> 1 * TicksPerSecond] >>

ServiceCount == Len(api_services)

ServiceIndex == 0 .. (ServiceCount - 1)

\* A response body: plain text (a vendor name, nothing, "Unknown", white
\* space), a JSON object with or without a "company" field, or a JSON array.
TextBody(t) == [kind |-> "text", value |-> t]

ObjectBody(company) == [kind |-> "object", value |-> company]

ObjectNoCompany == [kind |-> "object_no_company", value |-> ""]

ArrayBody == [kind |-> "array", value |-> ""]

Bodies ==
    { TextBody(AppleVendor), TextBody(""), TextBody("Unknown"), TextBody(Blank),
      ObjectBody(AppleVendor), ObjectBody(""), ObjectBody("Unknown"),
      ObjectNoCompany, ArrayBody }

\* The text of a JSON body: some text that is neither empty nor "Unknown"
JsonText == "<json>"

\* response.text: the body as sent
RawText(body) ==
    CASE body.kind = "text" -> body.value
      [] OTHER -> JsonText

\* response.json() followed by data.get('company', 'Unknown'):
\* what it yields, or the exception it ends with
ParseCompany(body) ==
    CASE body.kind = "text" -> [ok |-> FALSE, exc |-> "JSONDecodeError", value |-> ""]
      [] body.kind = "array" -> [ok |-> FALSE, exc |-> "AttributeError", value |-> ""]
      [] body.kind = "object_no_company" -> [ok |-> TRUE, exc |-> "", value |-> "Unknown"]
      [] OTHER -> [ok |-> TRUE, exc |-> "", value |-> body.value]

\* lines 389-393: the vendor a 200 response yields from service index i
ParseVendor(i, body) ==
    IF api_services[i + 1].name = "maclookup"
    THEN ParseCompany(body)
    ELSE [ok |-> TRUE, exc |-> "", value |-> RawText(body)]

\* what get_vendor hands back: a returned value or a raised exception
Returned(v) == [kind |-> "return", value |-> v]

Raised(e) == [kind |-> "raise", value |-> e]

NoResult == [kind |-> "none", value |-> ""]

----------------------------------------------------------------------------
(* State *)

VARIABLES
    \* OUIManager fields
    cache,                  \* self.cache: dict OUI -> vendor
    failed_lookups,         \* self.failed_lookups: set of OUI
    pending_saves,          \* self.pending_saves
    current_service_index,  \* self.current_service_index
    rate_limit,             \* api_services[i]['rate_limit'], in ticks
    last_call,              \* api_services[i]['last_call'], in ticks
    \* the data directory
    cacheFile,              \* output/data/oui_cache.json
    failedFile,             \* output/data/failed_lookups.json
    \* the wall clock, time.time(), in ticks
    now,
    \* the running call
    pc,                     \* "idle", "loop" (get_vendor's while), "batch" (its
                            \* second loop), "returned" (from batch_lookup_vendors),
                            \* "aborted" (by an exception nothing catches)
    caller,                 \* who called get_vendor: "main" or "batch"
    mac,                    \* get_vendor's argument
    oui,                    \* get_vendor's local oui
    original_service_index, \* get_vendor's local
    retries,                \* get_vendor's local
    result,                 \* what the last get_vendor handed back
    macs,                   \* batch_lookup_vendors' argument
    progress,               \* batch_lookup_vendors' argument: given (TRUE) or None
    unknown_macs,           \* batch_lookup_vendors' local
    results,                \* batch_lookup_vendors' local and return value
    \* history of the last get_vendor call (observers, not program state)
    path,                   \* which way it took: "invalid", "cache", "failed", "network"
    httpCount,              \* HTTP requests it issued
    lastOutcome,            \* what its latest request met ("none" before the first;
                            \* "200 without vendor": a 200 whose vendor is empty
                            \* or "Unknown")
    onlyErrors,             \* every request so far met a transport error
    n429,                   \* 429 answers per service during it
    rateAtStart,            \* rate_limit when it started
    lastRequestAt,          \* per service, when the latest request went out (-1: never)
    lastPut,                \* the latest cache[k] = v
    lastOp,                 \* the latest operation called on the manager, or
                            \* "write" when the input file was written since
    \* the input file and its fingerprints
    inputFile,              \* the input file: its bytes and st_mtime
    processed_files,        \* self.processed_files: path -> metadata
    processedFile,          \* output/data/processed_files.json
    \* history of the input file (observers, not program state)
    fileHistory,            \* since the latest update_file_metadata: "unrecorded"
                            \* (there was none), "untouched", "appended" (bytes
                            \* were appended, nothing else), "modified"
    returns,                \* what the program's own has_file_changed calls
                            \* returned since then, in order
    \* the running process_vendor_devices call
    procPc,                 \* "none", "reading" (its loop over the lines), "lookup"
                            \* (in batch_lookup_vendors at line 898),
                            \* "final_lookup" (at line 911), "done" (returned)
    lineNo,                 \* lines of the input file read so far
    file_changed,           \* its local file_changed
    mac_batch,              \* its local mac_batch
    runStart,               \* the input file and processed_files, in memory and on
                            \* disk, when it was called (observer)
    passed_macs,            \* the MACs this call of process_vendor_devices has
                            \* handed to batch_lookup_vendors (observer)
    \* a call of one function on its own
    called,                 \* the function called, "none" before the call
    callArg,                \* its argument
    callResult              \* what it returned

managerVars == <<cache, failed_lookups, pending_saves, current_service_index,
                 rate_limit, last_call>>

diskVars == <<cacheFile, failedFile>>

localVars == <<mac, oui, original_service_index, retries>>

batchVars == <<macs, progress, unknown_macs, results>>

callHistory == <<path, httpCount, lastOutcome, onlyErrors, n429, rateAtStart>>

fileVars == <<inputFile, processed_files, processedFile, fileHistory, returns>>

procVars == <<procPc, lineNo, file_changed, mac_batch, runStart, passed_macs>>

pureVars == <<called, callArg, callResult>>

vars == <<managerVars, diskVars, now, pc, caller, localVars, result, batchVars,
          callHistory, lastRequestAt, lastPut, lastOp, fileVars, procVars, pureVars>>

NoPut == [key |-> NoOui, value |-> ""]

NoRun == [inputFile |-> InitialInputFile, processed_files |-> EmptyDict,
          processedFile |-> AbsentFile]

\* The clock at start-up lies further from last_call = 0 than any initial
\* interval (time.time() counts from 1970).
InitialNow == 2 * TicksPerSecond

\* OUIManager.__init__, from any data directory of InitialCacheFiles x
\* InitialFailedFiles
InitManager ==
    /\ cacheFile \in InitialCacheFiles
    /\ failedFile \in InitialFailedFiles
    /\ cache = LoadCache(cacheFile, EmptyDict)
    /\ failed_lookups = LoadFailedLookups(failedFile, {})
    /\ pending_saves = 0
    /\ current_service_index = 0
    /\ rate_limit = [i \in ServiceIndex |-> api_services[i + 1].rate_limit]
    /\ last_call = [i \in ServiceIndex |-> 0]
    /\ now = InitialNow
    /\ pc = "idle"
    /\ caller = "main"
    /\ mac = NoMac
    /\ oui = NoOui
    /\ original_service_index = 0
    /\ retries = 0
    /\ result = NoResult
    /\ macs = <<>>
    /\ progress = FALSE
    /\ unknown_macs = <<>>
    /\ results = EmptyDict
    /\ path = "none"
    /\ httpCount = 0
    /\ lastOutcome = "none"
    /\ onlyErrors = TRUE
    /\ n429 = [i \in ServiceIndex |-> 0]
    /\ rateAtStart = rate_limit
    /\ lastRequestAt = [i \in ServiceIndex |-> -1]
    /\ lastPut = NoPut
    /\ lastOp = "__init__"
    /\ inputFile = InitialInputFile
    /\ processedFile = AbsentFile
    /\ processed_files = LoadProcessedFiles(processedFile, EmptyDict)
    /\ fileHistory = "unrecorded"
    /\ returns = <<>>
    /\ procPc = "none"
    /\ lineNo = 0
    /\ file_changed = FALSE
    /\ mac_batch = <<>>
    /\ runStart = NoRun
    /\ passed_macs = {}

NoCall == <<>>

Init ==
    /\ InitManager
    /\ called = "none"
    /\ callArg = NoCall
    /\ callResult = NoCall

----------------------------------------------------------------------------
(* save_cache and save_failed_lookups *)

\* save_cache that counts the call it is making
save_cache_CountingThisCall(force, cache_) ==
    IF ~force /\ pending_saves + 1 < max_pending_saves
    THEN [pending_saves |-> pending_saves + 1, cacheFile |-> cacheFile]
    ELSE [pending_saves |-> 0, cacheFile |-> WriteCacheFile(cache_)]

\* save_cache(force) with the cache holding cache_: the counter and the file
\* it leaves
save_cache(force, cache_) ==
    IF ~force /\ pending_saves < max_pending_saves
    THEN [pending_saves |-> pending_saves + 1, cacheFile |-> cacheFile]
    ELSE [pending_saves |-> 0, cacheFile |-> WriteCacheFile(cache_)]

\* save_failed_lookups that leaves the file as it is
save_failed_lookups_NoWrite(failed_) == failedFile

\* json.dump(list(self.failed_lookups), f)
save_failed_lookups(failed_) == ArrayFile(failed_)

----------------------------------------------------------------------------
(* get_vendor *)

\* EntryPath without the failed-lookup check of lines 371-373
EntryPath_NoFailedCheck(m) ==
    IF ~_validate_mac(m) THEN "invalid"
    ELSE IF DictHas(cache, _normalize_mac(m)) THEN "cache"
    ELSE "network"

\* EntryPath without the cache check of lines 367-369
EntryPath_NoCacheCheck(m) ==
    IF ~_validate_mac(m) THEN "invalid"
    ELSE IF _normalize_mac(m) \in failed_lookups THEN "failed"
    ELSE "network"

\* EntryPath without the validation of lines 362-363
EntryPath_NoValidation(m) ==
    IF DictHas(cache, _normalize_mac(m)) THEN "cache"
    ELSE IF _normalize_mac(m) \in failed_lookups THEN "failed"
    ELSE "network"

\* lines 362-373: the way get_vendor takes for MAC m
EntryPath(m) ==
    IF ~_validate_mac(m) THEN "invalid"
    ELSE IF DictHas(cache, _normalize_mac(m)) THEN "cache"
    ELSE IF _normalize_mac(m) \in failed_lookups THEN "failed"
    ELSE "network"

\* get_vendor(m) hands back r to its caller: to batch_lookup_vendors' loop
\* (results[mac] = ...), or to the program; an exception passes through both.
Return(m, r) ==
    /\ result' = r
    /\ original_service_index' = 0
    /\ retries' = 0
    /\ IF r.kind = "raise"
       THEN pc' = "aborted" /\ UNCHANGED batchVars
       ELSE IF caller = "batch"
       THEN /\ pc' = "batch"
            /\ results' = DictPut(results, m, r.value)
            /\ unknown_macs' = Tail(unknown_macs)
            /\ UNCHANGED <<macs, progress>>
       ELSE pc' = "idle" /\ UNCHANGED batchVars

\* lines 360-378: get_vendor(m) up to its while loop
GetVendorEntry(m) ==
    /\ mac' = m
    /\ path' = EntryPath(m)
    /\ httpCount' = 0
    /\ lastOutcome' = "none"
    /\ onlyErrors' = TRUE
    /\ n429' = [i \in ServiceIndex |-> 0]
    /\ rateAtStart' = rate_limit
    /\ lastOp' = "get_vendor"
    /\ UNCHANGED <<managerVars, diskVars, now, lastRequestAt, lastPut, fileVars,
                   procVars, pureVars>>
    /\ CASE EntryPath(m) = "invalid" ->
              oui' = NoOui /\ Return(m, Returned("Unknown"))
         [] EntryPath(m) = "cache" ->
              /\ oui' = _normalize_mac(m)
              /\ Return(m, Returned(DictGet(cache, _normalize_mac(m))))
         [] EntryPath(m) = "failed" ->
              oui' = _normalize_mac(m) /\ Return(m, Returned("Unknown"))
         [] OTHER ->
              /\ oui' = _normalize_mac(m)
              /\ original_service_index' = current_service_index
              /\ retries' = 0
              /\ result' = NoResult
              /\ pc' = "loop"
              /\ UNCHANGED batchVars

\* the program calls get_vendor(m)
GetVendor ==
    /\ pc = "idle"
    /\ UNCHANGED caller
    /\ \E m \in MacInputs : GetVendorEntry(m)

\* max_retries with one lap only
max_retries_OneLap == ServiceCount

\* line 378
max_retries == ServiceCount * 2

\* _rate_limit without its sleep
_rate_limit_NoSleep(i) == now

\* lines 351-358: the clock when _rate_limit(service i) returns
_rate_limit(i) ==
    LET time_since_last_call == now - last_call[i]
    IN IF time_since_last_call < rate_limit[i]
       THEN now + (rate_limit[i] - time_since_last_call)
       ELSE now

\* lines 380-386: one more turn of the loop sends a request to the current
\* service, which meets outcome o ("200", "429", "404", "500", "error")
SendRequest(o) ==
    /\ pc = "loop"
    /\ retries < max_retries
    /\ _rate_limit(current_service_index) + TicksPerSecond <= MaxClock
    /\ last_call' = [last_call EXCEPT ![current_service_index] =
                        _rate_limit(current_service_index)]
    /\ lastRequestAt' = [lastRequestAt EXCEPT ![current_service_index] =
                        _rate_limit(current_service_index)]
    /\ httpCount' = httpCount + 1
    /\ lastOutcome' = o
    /\ onlyErrors' = (onlyErrors /\ o = "error")
    /\ UNCHANGED <<caller, mac, oui, path, rateAtStart, lastOp, fileVars,
                   procVars, pureVars>>

\* lines 412-416: on to the next service
NextService ==
    /\ current_service_index' = (current_service_index + 1) % ServiceCount
    /\ retries' = retries + 1
    /\ now' = IF current_service_index' = original_service_index
              THEN _rate_limit(current_service_index) + TicksPerSecond
              ELSE _rate_limit(current_service_index)
    /\ UNCHANGED <<pc, original_service_index, result, batchVars>>

\* a vendor test that lets the literal "Unknown" through
Storable_UnknownToo(vendor) == vendor # ""

\* line 395: if vendor and vendor != "Unknown"
Storable(vendor) == vendor # "" /\ vendor # "Unknown"

\* lines 388-398: HTTP 200
On200 ==
    \E body \in Bodies :
        LET parsed == ParseVendor(current_service_index, body)
        IN /\ SendRequest(IF parsed.ok /\ parsed.value \in {"", "Unknown"}
                          THEN "200 without vendor" ELSE "200")
           /\ CASE ~parsed.ok /\ parsed.exc = "AttributeError" ->
                  \* not caught by line 409
                  /\ now' = _rate_limit(current_service_index)
                  /\ Return(mac, Raised(parsed.exc))
                  /\ UNCHANGED <<cache, failed_lookups, pending_saves,
                                 current_service_index, rate_limit, diskVars,
                                 n429, lastPut>>
             [] ~parsed.ok ->
                  \* json.JSONDecodeError, caught by line 409
                  /\ NextService
                  /\ UNCHANGED <<cache, failed_lookups, pending_saves, rate_limit,
                                 diskVars, n429, lastPut>>
             [] parsed.ok /\ Storable(parsed.value) ->
                  /\ cache' = DictPut(cache, oui, parsed.value)
                  /\ lastPut' = [key |-> oui, value |-> parsed.value]
                  /\ pending_saves' = save_cache(FALSE, cache').pending_saves
                  /\ cacheFile' = save_cache(FALSE, cache').cacheFile
                  /\ now' = _rate_limit(current_service_index)
                  /\ Return(mac, Returned(parsed.value))
                  /\ UNCHANGED <<failed_lookups, current_service_index, rate_limit,
                                 failedFile, n429>>
             [] OTHER ->
                  /\ NextService
                  /\ UNCHANGED <<cache, failed_lookups, pending_saves, rate_limit,
                                 diskVars, n429, lastPut>>

\* On429 doubling the interval
On429_Doubling ==
    /\ SendRequest("429")
    /\ rate_limit' = [rate_limit EXCEPT ![current_service_index] = 2 * @]
    /\ n429' = [n429 EXCEPT ![current_service_index] = @ + 1]
    /\ NextService
    /\ UNCHANGED <<cache, failed_lookups, pending_saves, diskVars, lastPut>>

\* lines 400-402: HTTP 429
On429 ==
    /\ SendRequest("429")
    /\ (3 * rate_limit[current_service_index]) % 2 = 0
    /\ rate_limit' = [rate_limit EXCEPT ![current_service_index] = (3 * @) \div 2]
    /\ n429' = [n429 EXCEPT ![current_service_index] = @ + 1]
    /\ NextService
    /\ UNCHANGED <<cache, failed_lookups, pending_saves, diskVars, lastPut>>

\* On404 going on to the next service
On404_TryNext ==
    /\ SendRequest("404")
    /\ NextService
    /\ UNCHANGED <<cache, failed_lookups, pending_saves, rate_limit, diskVars,
                   n429, lastPut>>

\* On404 recording the failure and going on to the next service
On404_RecordAndGoOn ==
    /\ SendRequest("404")
    /\ failed_lookups' = failed_lookups \cup {oui}
    /\ failedFile' = save_failed_lookups(failed_lookups')
    /\ NextService
    /\ UNCHANGED <<cache, pending_saves, rate_limit, cacheFile, n429, lastPut>>

\* lines 404-407: HTTP 404
On404 ==
    /\ SendRequest("404")
    /\ failed_lookups' = failed_lookups \cup {oui}
    /\ failedFile' = save_failed_lookups(failed_lookups')
    /\ now' = _rate_limit(current_service_index)
    /\ Return(mac, Returned("Unknown"))
    /\ UNCHANGED <<cache, pending_saves, current_service_index, rate_limit,
                   cacheFile, n429, lastPut>>

\* any other status: no branch of lines 388-407 applies
OnOtherStatus ==
    /\ SendRequest("500")
    /\ NextService
    /\ UNCHANGED <<cache, failed_lookups, pending_saves, rate_limit, diskVars,
                   n429, lastPut>>

\* OnRequestException with the backoff of a 429
OnRequestException_Backoff ==
    /\ SendRequest("error")
    /\ (3 * rate_limit[current_service_index]) % 2 = 0
    /\ rate_limit' = [rate_limit EXCEPT ![current_service_index] = (3 * @) \div 2]
    /\ NextService
    /\ UNCHANGED <<cache, failed_lookups, pending_saves, diskVars, n429, lastPut>>

\* lines 409-410: requests.get raises a RequestException (no connection,
\* timeout after 5 s)
OnRequestException ==
    /\ SendRequest("error")
    /\ NextService
    /\ UNCHANGED <<cache, failed_lookups, pending_saves, rate_limit, diskVars,
                   n429, lastPut>>

\* Exhausted without the record of lines 418-419
Exhausted_NoRecord ==
    /\ pc = "loop"
    /\ retries >= max_retries
    /\ Return(mac, Returned("Unknown"))
    /\ UNCHANGED <<cache, failed_lookups, failedFile, pending_saves,
                   current_service_index, rate_limit,
                   last_call, cacheFile, now, caller, mac, oui, callHistory,
                   lastRequestAt, lastPut, lastOp, fileVars, procVars, pureVars>>

\* lines 418-420: the loop has run max_retries times
Exhausted ==
    /\ pc = "loop"
    /\ retries >= max_retries
    /\ failed_lookups' = failed_lookups \cup {oui}
    /\ failedFile' = save_failed_lookups(failed_lookups')
    /\ Return(mac, Returned("Unknown"))
    /\ UNCHANGED <<cache, pending_saves, current_service_index, rate_limit,
                   last_call, cacheFile, now, caller, mac, oui, callHistory,
                   lastRequestAt, lastPut, lastOp, fileVars, procVars, pureVars>>

----------------------------------------------------------------------------
(* The clock and the other operations *)

\* a second passes
Tick ==
    /\ pc \in {"idle", "loop"}
    /\ now + TicksPerSecond <= MaxClock
    /\ now' = now + TicksPerSecond
    /\ UNCHANGED <<managerVars, diskVars, pc, caller, localVars, result,
                   batchVars, callHistory, lastRequestAt, lastPut, lastOp,
                   fileVars, procVars, pureVars>>

\* the program calls save_cache(force=True)
SaveCacheForce ==
    /\ pc = "idle"
    /\ pending_saves' = save_cache(TRUE, cache).pending_saves
    /\ cacheFile' = save_cache(TRUE, cache).cacheFile
    /\ lastOp' = "save_cache_force"
    /\ UNCHANGED <<cache, failed_lookups, current_service_index, rate_limit,
                   last_call, failedFile, now, pc, caller, localVars, result,
                   batchVars, callHistory, lastRequestAt, lastPut, fileVars,
                   procVars, pureVars>>

\* lines 473-479: the valid keys, normalized
RECURSIVE NormalizedCache(_, _)
NormalizedCache(items, normalized_cache) ==
    IF items = <<>> THEN normalized_cache
    ELSE NormalizedCache(Tail(items),
            IF _validate_mac(Head(items).key)
            THEN DictPut(normalized_cache, _normalize_mac(Head(items).key),
                         Head(items).value)
            ELSE normalized_cache)

\* lines 481-496: the vendor names standardized; unique_entries holds every
\* entry of vendor_standardized
VendorStandardized(d) ==
    [i \in 1..Len(d) |-> [key |-> d[i].key, value |-> StandardizedString[d[i].value]]]

\* lines 455-511: the program calls cleanup_cache()
CleanupCache ==
    /\ pc = "idle"
    /\ procPc = "none"
    /\ cache' = VendorStandardized(NormalizedCache(cache, EmptyDict))
    /\ pending_saves' = save_cache(FALSE, cache').pending_saves
    /\ cacheFile' = save_cache(FALSE, cache').cacheFile
    /\ lastOp' = "cleanup_cache"
    /\ UNCHANGED <<failed_lookups, current_service_index, rate_limit,
                   last_call, failedFile, now, pc, caller, localVars, result,
                   batchVars, callHistory, lastRequestAt, lastPut, fileVars,
                   procVars, pureVars>>

\* cleanup_cache called while few saves are pending
CleanupEarly ==
    /\ pending_saves < MaxPendingAtCleanup
    /\ CleanupCache

----------------------------------------------------------------------------
(* batch_lookup_vendors *)

\* the MAC lists of at most MaxBatch entries
MacLists == UNION {[1..n -> MacInputs] : n \in 0..MaxBatch}

\* lines 428-439: the entries the first loop gives results
RECURSIVE KnownResults(_, _)
KnownResults(ms, acc) ==
    IF ms = <<>> THEN acc
    ELSE KnownResults(Tail(ms),
            CASE EntryPath(Head(ms)) = "invalid" -> DictPut(acc, Head(ms), "Unknown")
              [] EntryPath(Head(ms)) = "cache" ->
                    DictPut(acc, Head(ms), DictGet(cache, _normalize_mac(Head(ms))))
              [] EntryPath(Head(ms)) = "failed" -> DictPut(acc, Head(ms), "Unknown")
              [] OTHER -> acc)

\* lines 428-439: the MACs the first loop appends to unknown_macs
IsUnknownMac(m) == EntryPath(m) = "network"

\* lines 422-446: batch_lookup_vendors(ms, prog) up to its second loop
BatchLookupCall(ms, prog) ==
    /\ pc = "idle"
    /\ macs' = ms
    /\ progress' = prog
    /\ results' = KnownResults(ms, EmptyDict)
    /\ unknown_macs' = SelectSeq(ms, IsUnknownMac)
    /\ IF unknown_macs' # <<>> /\ prog
       THEN pc' = "batch" /\ caller' = "batch"
       ELSE pc' = "returned" /\ caller' = "main"
    /\ lastOp' = "batch_lookup_vendors"
    /\ mac' = NoMac
    /\ oui' = NoOui
    /\ result' = NoResult
    /\ path' = "none"
    /\ httpCount' = 0
    /\ lastOutcome' = "none"
    /\ onlyErrors' = TRUE
    /\ n429' = [i \in ServiceIndex |-> 0]
    /\ rateAtStart' = rate_limit
    /\ UNCHANGED <<managerVars, diskVars, now, original_service_index, retries,
                   lastRequestAt, lastPut>>

\* the program calls batch_lookup_vendors(ms, prog)
BatchLookup ==
    /\ \E ms \in MacLists, prog \in BOOLEAN : BatchLookupCall(ms, prog)
    /\ UNCHANGED <<fileVars, procVars, pureVars>>

\* lines 449-451: the second loop calls get_vendor for the next unknown MAC
BatchNext ==
    /\ pc = "batch"
    /\ unknown_macs # <<>>
    /\ UNCHANGED caller
    /\ GetVendorEntry(Head(unknown_macs))

\* line 453: return results, after the second loop
BatchReturn ==
    /\ pc = "batch"
    /\ unknown_macs = <<>>
    /\ pc' = "returned"
    /\ caller' = "main"
    /\ UNCHANGED <<managerVars, diskVars, now, localVars, result, batchVars,
                   callHistory, lastRequestAt, lastPut, lastOp, fileVars, procVars, pureVars>>

\* the program has taken the returned map; the call's locals are gone
BatchDone ==
    /\ pc = "returned"
    /\ pc' = "idle"
    /\ macs' = <<>>
    /\ progress' = FALSE
    /\ unknown_macs' = <<>>
    /\ results' = EmptyDict
    /\ UNCHANGED <<managerVars, diskVars, now, caller, localVars, result,
                   callHistory, lastRequestAt, lastPut, lastOp, fileVars, procVars, pureVars>>

----------------------------------------------------------------------------
(* has_file_changed and update_file_metadata, and writes to the input file *)

\* has_file_changed without the comparison of sizes
has_file_changed_NoSize(file_path) ==
    LET current_metadata == get_file_metadata(inputFile)
    IN  IF ~DictHas(processed_files, file_path) THEN TRUE
        ELSE LET stored_metadata == DictGet(processed_files, file_path)
             IN  \/ current_metadata.mtime # stored_metadata.mtime
                 \/ current_metadata.hash # stored_metadata.hash

\* lines 275-285: the value has_file_changed(file_path) returns
has_file_changed(file_path) ==
    LET current_metadata == get_file_metadata(inputFile)
    IN  IF ~DictHas(processed_files, file_path) THEN TRUE
        ELSE LET stored_metadata == DictGet(processed_files, file_path)
             IN  \/ current_metadata.size # stored_metadata.size
                 \/ current_metadata.mtime # stored_metadata.mtime
                 \/ current_metadata.hash # stored_metadata.hash

\* the program calls has_file_changed(ip_arp_file)
HasFileChanged ==
    /\ pc = "idle"
    /\ Len(returns) < MaxChecks
    /\ returns' = Append(returns, has_file_changed(ip_arp_file))
    /\ lastOp' = "has_file_changed"
    /\ UNCHANGED <<managerVars, diskVars, now, pc, caller, localVars, result,
                   batchVars, callHistory, lastRequestAt, lastPut, inputFile,
                   processed_files, processedFile, fileHistory, procVars, pureVars>>

\* lines 287-290: update_file_metadata(file_path)
update_file_metadata(file_path) ==
    /\ processed_files' =
            DictPut(processed_files, file_path, get_file_metadata(inputFile))
    /\ processedFile' = WriteProcessedFile(processed_files')
    /\ fileHistory' = "untouched"
    /\ returns' = <<>>

\* the program calls update_file_metadata(ip_arp_file)
UpdateFileMetadata ==
    /\ pc = "idle"
    /\ update_file_metadata(ip_arp_file)
    /\ lastOp' = "update_file_metadata"
    /\ UNCHANGED <<managerVars, diskVars, now, pc, caller, localVars, result,
                   batchVars, callHistory, lastRequestAt, lastPut, inputFile,
                   procVars, pureVars>>

\* a write to the input file leaves its st_mtime (a writer that restores it,
\* or a clock too coarse to tell) or moves it on
NextMtimes == {inputFile.mtime} \cup ({inputFile.mtime + 1} \cap (0..MaxMtime))

\* what every write to the input file leaves alone; nobody writes the file
\* while process_vendor_devices is at work on it
WriteFrame ==
    /\ procPc \in {"none", "done"}
    /\ pc # "aborted"
    /\ lastOp' = "write"
    /\ UNCHANGED <<managerVars, diskVars, now, pc, caller, localVars, result,
                   batchVars, callHistory, lastRequestAt, lastPut,
                   processed_files, processedFile, returns, procVars, pureVars>>

\* somebody appends one byte to the input file
AppendByte ==
    /\ Len(inputFile.content) < MaxFileLen
    /\ \E b \in Byte, t \in NextMtimes :
          inputFile' = [content |-> Append(inputFile.content, b), mtime |-> t]
    /\ fileHistory' = IF fileHistory = "untouched" THEN "appended" ELSE fileHistory
    /\ WriteFrame

\* somebody overwrites one byte of the input file
OverwriteByte ==
    /\ \E i \in 1..Len(inputFile.content), b \in Byte, t \in NextMtimes :
          /\ b # inputFile.content[i]
          /\ inputFile' = [content |-> [inputFile.content EXCEPT ![i] = b],
                           mtime |-> t]
    /\ fileHistory' = IF fileHistory = "unrecorded" THEN fileHistory ELSE "modified"
    /\ WriteFrame

\* somebody cuts the last byte off the input file
TruncateByte ==
    /\ inputFile.content # <<>>
    /\ \E t \in NextMtimes :
          inputFile' = [content |-> SubSeq(inputFile.content, 1,
                                           Len(inputFile.content) - 1),
                        mtime |-> t]
    /\ fileHistory' = IF fileHistory = "unrecorded" THEN fileHistory ELSE "modified"
    /\ WriteFrame

\* somebody sets the input file's st_mtime alone
Touch ==
    /\ inputFile.mtime < MaxMtime
    /\ inputFile' = [inputFile EXCEPT !.mtime = inputFile.mtime + 1]
    /\ fileHistory' = IF fileHistory = "unrecorded" THEN fileHistory ELSE "modified"
    /\ WriteFrame

----------------------------------------------------------------------------
(* _normalize_mac and _validate_mac on their own, over MAC addresses as     *)
(* they are written: twelve digits, in one of the separator styles, in      *)
(* upper or lower case, whole or damaged.                                   *)

\* the addresses: six OUI digits (the device half is AABBCC), a separator
\* style, a letter case, and what is wrong with them.  "none": nothing, the
\* twelve digits; "short": the last digit missing; "long": a thirteenth
\* digit; "nonhex": a letter that is no hex digit in the device half;
\* "nonhex_oui": one in the OUI half; "no_oui": four digits only
MacArgs ==
    [oui : [1..6 -> {"0", "1", "B"}],
     style : {"colon", "dash", "dot", "plain"},
     lower : BOOLEAN,
     defect : {"none", "short", "long", "nonhex", "nonhex_oui", "no_oui"}]

\* str.lower() on the characters the model uses
LowerSeq(s) ==
    LET Lower(c) ==
            CASE c = "A" -> "a" [] c = "B" -> "b" [] c = "C" -> "c"
              [] c = "D" -> "d" [] c = "E" -> "e" [] c = "F" -> "f"
              [] c = "G" -> "g" [] OTHER -> c
    IN  [i \in 1..Len(s) |-> Lower(s[i])]

\* the digits in groups of n with sep between them
RECURSIVE Grouped(_, _, _)
Grouped(digits, n, sep) ==
    IF Len(digits) <= n THEN digits
    ELSE SubSeq(digits, 1, n) \o <<sep>>
           \o Grouped(SubSeq(digits, n + 1, Len(digits)), n, sep)

\* the digits of the address a stands for
MacDigits(a) ==
    LET whole == a.oui \o <<"A", "A", "B", "B", "C", "C">>
    IN  CASE a.defect = "none"       -> whole
          [] a.defect = "short"      -> SubSeq(whole, 1, 11)
          [] a.defect = "long"       -> Append(whole, "0")
          [] a.defect = "nonhex"     -> [whole EXCEPT ![12] = "G"]
          [] a.defect = "nonhex_oui" -> [whole EXCEPT ![3] = "G"]
          [] a.defect = "no_oui"     -> SubSeq(whole, 1, 4)

\* the characters of the address a stands for
MacText(a) ==
    LET cased == IF a.lower THEN LowerSeq(MacDigits(a)) ELSE MacDigits(a)
    IN  CASE a.style = "colon" -> Grouped(cased, 2, ":")
          [] a.style = "dash"  -> Grouped(cased, 2, "-")
          [] a.style = "dot"   -> Grouped(cased, 4, ".")
          [] a.style = "plain" -> cased

\* a manager, and an address to hand to one of its functions
InitMacText ==
    /\ InitManager
    /\ called = "none"
    /\ callArg \in MacArgs
    /\ callResult = NoCall

\* what a call of a function on its own leaves alone
CallFrame ==
    /\ called = "none"
    /\ UNCHANGED <<managerVars, diskVars, now, pc, caller, localVars, result,
                   batchVars, callHistory, lastRequestAt, lastPut, lastOp,
                   fileVars, procVars, callArg>>

\* lines 339-344: the program calls _normalize_mac(mac)
NormalizeMac ==
    /\ CallFrame
    /\ called' = "_normalize_mac"
    /\ callResult' = NormalizeChars(MacText(callArg))

\* lines 346-349: the program calls _validate_mac(mac)
ValidateMac ==
    /\ CallFrame
    /\ called' = "_validate_mac"
    /\ callResult' = MatchesOui(NormalizeChars(MacText(callArg)))

----------------------------------------------------------------------------
(* process_vendor_devices.  Each byte of the model's input file stands for   *)
(* one line of it.  The first line is the one lines 831-832 read to tell    *)
(* the file type: the header of a "Mac Address" table (byte 1), or a line   *)
(* of data.  Every line of data holds a MAC at the column the function      *)
(* reads.                                                                   *)

\* line 832: "Mac Address" in first_line
is_mac_table ==
    inputFile.content # <<>> /\ Head(inputFile.content) = 1

\* lines 870, 883: the MAC the function takes from a line
LineMac(line) ==
    IF line = 0 THEN "00:1B:63:AA:BB:CC" ELSE "aa-bb-cc-dd-ee-ff"

\* the read loop over one line only
AllLinesRead_FirstLineOnly == lineNo >= Min(1, Len(inputFile.content))

\* lines 850-852: f.read has nothing more to give
AllLinesRead == lineNo >= Len(inputFile.content)

\* what the calls of batch_lookup_vendors at lines 898 and 911 leave alone
\* when they are not made
NoBatchLookup ==
    UNCHANGED <<managerVars, diskVars, now, pc, caller, localVars, result,
                batchVars, callHistory, lastRequestAt, lastPut, lastOp>>

\* lines 918-920: update the file's metadata after processing
FinishProcessing ==
    /\ IF file_changed
       THEN update_file_metadata(ip_arp_file) /\ UNCHANGED inputFile
       ELSE UNCHANGED fileVars
    /\ procPc' = "done"

\* lines 806-837: the program calls process_vendor_devices(ip_arp_file, ...),
\* which reads the header
ProcessStart ==
    /\ pc = "idle"
    /\ procPc = "none"
    /\ file_changed' = has_file_changed(ip_arp_file)
    /\ lineNo' = Min(Len(inputFile.content), IF is_mac_table THEN 2 ELSE 1)
    /\ mac_batch' = <<>>
    /\ procPc' = "reading"
    /\ runStart' = [inputFile |-> inputFile, processed_files |-> processed_files,
                    processedFile |-> processedFile]
    /\ passed_macs' = {}
    /\ lastOp' = "process_vendor_devices"
    /\ UNCHANGED <<managerVars, diskVars, now, pc, caller, localVars, result,
                   batchVars, callHistory, lastRequestAt, lastPut, fileVars,
                   pureVars>>

\* lines 860-905: the next line of the file
ReadLine ==
    /\ pc = "idle"
    /\ procPc = "reading"
    /\ ~AllLinesRead
    /\ LET m == LineMac(inputFile.content[lineNo + 1])
           batch == IF DictHas(cache, _normalize_mac(m)) THEN mac_batch
                    ELSE IF file_changed THEN Append(mac_batch, m)
                    ELSE mac_batch
       IN  /\ mac_batch' = batch
           /\ IF file_changed /\ Len(batch) >= batch_size
              THEN /\ BatchLookupCall(batch, TRUE)
                   /\ passed_macs' = passed_macs \cup {batch[i] : i \in 1..Len(batch)}
                   /\ procPc' = "lookup"
              ELSE /\ NoBatchLookup
                   /\ UNCHANGED passed_macs
                   /\ procPc' = "reading"
    /\ lineNo' = lineNo + 1
    /\ UNCHANGED <<fileVars, file_changed, runStart, pureVars>>

\* lines 909-920: after the last line
ProcessEnd ==
    /\ pc = "idle"
    /\ procPc = "reading"
    /\ AllLinesRead
    /\ IF file_changed /\ mac_batch # <<>>
       THEN /\ BatchLookupCall(mac_batch, TRUE)
            /\ passed_macs' = passed_macs \cup {mac_batch[i] : i \in 1..Len(mac_batch)}
            /\ procPc' = "final_lookup"
            /\ UNCHANGED fileVars
       ELSE NoBatchLookup /\ FinishProcessing /\ UNCHANGED passed_macs
    /\ UNCHANGED <<lineNo, file_changed, mac_batch, runStart, pureVars>>

\* lines 899-905, 912-920: batch_lookup_vendors has returned its results
ProcessBatchReturned ==
    /\ pc = "returned"
    /\ procPc \in {"lookup", "final_lookup"}
    /\ pc' = "idle"
    /\ mac_batch' = <<>>
    /\ macs' = <<>>
    /\ progress' = FALSE
    /\ unknown_macs' = <<>>
    /\ results' = EmptyDict
    /\ mac' = NoMac
    /\ oui' = NoOui
    /\ result' = NoResult
    /\ path' = "none"
    /\ httpCount' = 0
    /\ lastOutcome' = "none"
    /\ onlyErrors' = TRUE
    /\ n429' = [i \in ServiceIndex |-> 0]
    /\ rateAtStart' = rate_limit
    /\ lastOp' = "process_vendor_devices"
    /\ IF procPc = "lookup"
       THEN procPc' = "reading" /\ UNCHANGED fileVars
       ELSE FinishProcessing
    /\ UNCHANGED <<managerVars, diskVars, now, caller, original_service_index,
                   retries, lastRequestAt, lastPut, lineNo, file_changed,
                   runStart, passed_macs, pureVars>>

\* lines 824-850: reading the file raises (OSError, UnicodeDecodeError), which
\* nothing catches
ReadError ==
    /\ pc = "idle"
    /\ procPc = "reading"
    /\ pc' = "aborted"
    /\ UNCHANGED <<managerVars, diskVars, now, caller, localVars, result,
                   batchVars, callHistory, lastRequestAt, lastPut, lastOp,
                   fileVars, procVars, pureVars>>

\* lines 202-236: the program ends and a new run constructs its OUIManager
\* over the same data directory
Restart ==
    /\ \/ pc = "idle" /\ procPc \in {"none", "done"}
       \/ pc = "aborted"
    /\ cache' = LoadCache(cacheFile, EmptyDict)
    /\ IF LoadCacheRaises(cacheFile)
       THEN \* line 233 raises: lines 234-235 are not reached, no manager is made
            /\ failed_lookups' = {}
            /\ processed_files' = EmptyDict
            /\ pc' = "aborted"
       ELSE /\ failed_lookups' = LoadFailedLookups(failedFile, {})
            /\ processed_files' = LoadProcessedFiles(processedFile, EmptyDict)
            /\ pc' = "idle"
    /\ pending_saves' = 0
    /\ current_service_index' = 0
    /\ rate_limit' = [i \in ServiceIndex |-> api_services[i + 1].rate_limit]
    /\ last_call' = [i \in ServiceIndex |-> 0]
    /\ caller' = "main"
    /\ mac' = NoMac
    /\ oui' = NoOui
    /\ original_service_index' = 0
    /\ retries' = 0
    /\ result' = NoResult
    /\ macs' = <<>>
    /\ progress' = FALSE
    /\ unknown_macs' = <<>>
    /\ results' = EmptyDict
    /\ path' = "none"
    /\ httpCount' = 0
    /\ lastOutcome' = "none"
    /\ onlyErrors' = TRUE
    /\ n429' = [i \in ServiceIndex |-> 0]
    /\ rateAtStart' = rate_limit'
    /\ lastRequestAt' = [i \in ServiceIndex |-> -1]
    /\ lastPut' = NoPut
    /\ procPc' = "none"
    /\ lineNo' = 0
    /\ file_changed' = FALSE
    /\ mac_batch' = <<>>
    /\ runStart' = NoRun
    /\ passed_macs' = {}
    /\ lastOp' = "__init__"
    /\ UNCHANGED <<diskVars, now, inputFile, processedFile, fileHistory, returns,
                   pureVars>>

----------------------------------------------------------------------------
(* analyze_file of shadowvendor/api.py, called with its default options on  *)
(* an input file: a name and lines, each line the words on it.              *)

\* str.replace(old, new), on characters
RECURSIVE Replace(_, _, _)
Replace(chars, old, new) ==
    IF Len(chars) < Len(old) THEN chars
    ELSE IF SubSeq(chars, 1, Len(old)) = old
         THEN new \o Replace(SubSeq(chars, Len(old) + 1, Len(chars)), old, new)
         ELSE <<Head(chars)>> \o Replace(Tail(chars), old, new)

\* Path.stem, on the characters of a file name: the name without its last
\* suffix
Stem(chars) ==
    LET dots == {i \in 2..Len(chars) : chars[i] = "."}
    IN  IF dots = {} THEN chars
        ELSE SubSeq(chars, 1, (CHOOSE i \in dots : \A j \in dots : j <= i) - 1)

TxtSuffix == <<".", "t", "x", "t">>

PortsSuffix == <<"-", "P", "o", "r", "t", "s", ".", "c", "s", "v">>

\* Longest input file handed to analyze_file, in lines.
MaxLines == 3

\* the lines input files are made of: a MAC address, the header and two rows
\* of an ARP table, the header, the rule and a row of a MAC address table,
\* and a blank line
InputLines ==
    { <<"00:11:22:33:44:55">>,
      <<"Protocol", "Address", "Age", "Hardware", "Addr", "Type", "Interface">>,
      <<"Internet", "10.0.0.1", "5", "0011.2233.4455", "ARPA", "Vlan10">>,
      <<"Internet", "10.0.0.2", "5", "D8.C7.C8.14C17B", "ARPA", "Vlan10">>,
      <<"Vlan", "Mac", "Address", "Type", "Ports">>,
      <<"----">>,
      <<"10", "0011.2233.4455", "DYNAMIC", "Gi1/0/1">>,
      <<>> }

\* the input files: a name and up to MaxLines lines
InputFiles ==
    [name : { <<"s", "w", ".", "t", "x", "t">>, <<"s", "w", ".", "l", "o", "g">> },
     lines : UNION {[1..n -> InputLines] : n \in 0..MaxLines}]

\* the words that are twelve hex digits once ':', '-' and '.' are removed
TwelveHexWords == {"00:11:22:33:44:55", "0011.2233.4455", "D8.C7.C8.14C17B"}

\* the words int() accepts
IntWords == {"10", "5"}

\* netvendor.py lines 22-71, on a stripped line: the first word is a MAC
\* address, and a second one is a mask (a prefix length or twelve hex digits)
is_mac_address(line) ==
    /\ line # <<>>
    /\ line[1] \in TwelveHexWords
    /\ Len(line) > 1 => (line[2] \in TwelveHexWords \/ line[2] \in IntWords)

\* netvendor.py lines 73-92: four parts between dots, hex digits
is_arp_table_mac(word) == word = "D8.C7.C8.14C17B"

\* netvendor.py lines 94-118: None for a word of fewer than twelve digits
format_mac_address(word) ==
    CASE word = "00:11:22:33:44:55" -> "00:11:22:33:44:55"
      [] word = "0011.2233.4455"    -> "00:11:22:33:44:55"
      [] word = "D8.C7.C8.14C17B"   -> "D8:C7:C8:14:C1:7B"
      [] OTHER                      -> "None"

\* word in line, for the words no other word of the lines contains
InLine(word, line) == \E i \in 1..Len(line) : line[i] = word

\* netvendor.py lines 120-141
is_arp_table_line(line) ==
    \/ /\ InLine("Protocol", line)
       /\ InLine("Address", line)
       /\ \E i \in 1..(Len(line) - 1) : line[i] = "Hardware" /\ line[i + 1] = "Addr"
    \/ /\ Len(line) >= 6
       /\ line[1] = "Internet"
       /\ is_arp_table_mac(line[4])

\* lines 135-136
first_line(lines) == IF lines = <<>> THEN <<>> ELSE lines[1]

second_line(lines) ==
    IF first_line(lines) # <<>> /\ Len(lines) >= 2 THEN lines[2] ELSE <<>>

\* line 139
is_mac_list(lines) == is_mac_address(first_line(lines))

\* lines 140-145
is_arp_table_file(lines) ==
    /\ ~is_mac_list(lines)
    /\ \/ (first_line(lines) # <<>> /\ first_line(lines)[1] = "Protocol")
       \/ InLine("Internet", first_line(lines))
       \/ InLine("Internet", second_line(lines))
       \/ (second_line(lines) # <<>> /\ is_arp_table_line(second_line(lines)))

\* line 146
is_mac_table_file(lines) == ~is_mac_list(lines) /\ ~is_arp_table_file(lines)

\* lines 148-157
input_type(lines) ==
    IF is_mac_list(lines) THEN "mac_list"
    ELSE IF is_arp_table_file(lines) THEN "arp_table"
    ELSE "mac_table"

\* lines 162-208: the keys of devices
Devices(lines) ==
    LET from(k) == {i \in k..Len(lines) : lines[i] # <<>>}
    IN  IF is_mac_list(lines)
        THEN {format_mac_address(lines[i][1]) :
                 i \in {j \in from(1) : is_mac_address(lines[j])}}
        ELSE IF is_arp_table_file(lines)
        THEN {format_mac_address(lines[i][4]) :
                 i \in {j \in from(2) : /\ ~InLine("Protocol", lines[j])
                                        /\ Len(lines[j]) >= 6
                                        /\ lines[j][1] = "Internet"}}
               \ {"None"}
        ELSE {format_mac_address(lines[i][2]) :
                 i \in {j \in from(3) : /\ Len(lines[j]) >= 4
                                        /\ lines[j][1] \in IntWords}}
               \ {"None"}

\* vendor_output_handler.py line 95: the file generate_port_report writes,
\* os.path.basename(input_file).replace('.txt', '-Ports.csv')
PortReportName(input_file) == Replace(input_file, TxtSuffix, PortsSuffix)

\* lines 106-295: what analyze_file(file) does
analyze_file(file) ==
    IF file.lines = <<>> \/ Devices(file.lines) = {}
    THEN \* lines 113-114, 210-211: ValueError
         [kind |-> "raise", input_type |-> "none", types |-> {},
          output_files |-> {}, written |-> {}]
    ELSE LET \* lines 226-241: the reports of every input type
             reports ==
                 { Stem(file.name)
                     \o <<"-", "D", "e", "v", "i", "c", "e", "s", ".", "c", "s", "v">>,
                   <<"v","e","n","d","o","r","_","d","i","s","t","r","i","b","u",
                     "t","i","o","n",".","h","t","m","l">>,
                   <<"v","e","n","d","o","r","_","s","u","m","m","a","r","y",".",
                     "t","x","t">> }
         IN
         [kind |-> "return",
          input_type |-> input_type(file.lines),
          types |-> (IF is_mac_list(file.lines) THEN {"mac_list"} ELSE {})
                      \cup (IF is_arp_table_file(file.lines) THEN {"arp_table"}
                            ELSE {})
                      \cup (IF is_mac_table_file(file.lines) THEN {"mac_table"}
                            ELSE {}),
          output_files |->
              reports
                \cup (IF is_mac_table_file(file.lines)
                      THEN {Stem(file.name) \o PortsSuffix} ELSE {}),
          written |->
              reports
                \cup (IF is_mac_table_file(file.lines)
                      THEN {PortReportName(file.name)} ELSE {})]

\* a manager, and an input file to analyze
InitInputFile ==
    /\ InitManager
    /\ cacheFile = AbsentFile
    /\ failedFile = AbsentKeysFile
    /\ called = "none"
    /\ callArg \in InputFiles
    /\ callResult = NoCall

\* the program calls analyze_file(input_file)
AnalyzeFile ==
    /\ CallFrame
    /\ called' = "analyze_file"
    /\ callResult' = analyze_file(callArg)

----------------------------------------------------------------------------
(* The options of ShadowVendor.py's main: from the command line, the         *)
(* configuration file and the environment.  A Python value is held as a     *)
(* string: "True", "False" and "None" stand for True, False and None.       *)

FlagOptions == {"offline", "analyze_drift", "siem_export"}

Options ==
    FlagOptions \cup {"history_dir", "site", "environment", "change_ticket"}

\* an option the command line does not give, a key the file does not hold,
\* a variable the environment does not set
NotGiven == "<not given>"

\* bool(value) is False
Falsy(value) == value \in {"False", "None", ""}

\* ShadowVendor.py lines 147-186: the defaults of the argument parser
ArgDefaults ==
    [o \in Options |->
        IF o \in FlagOptions THEN "False"
        ELSE IF o = "history_dir" THEN "history"
        ELSE "None"]

\* ShadowVendor.py line 189: parser.parse_args()
parse_args(argv) ==
    [o \in Options |-> IF argv[o] = NotGiven THEN ArgDefaults[o] ELSE argv[o]]

\* config.py lines 40-49: the defaults of the configuration
ConfigDefaults ==
    [o \in Options |->
        IF o \in FlagOptions THEN "False"
        ELSE IF o = "history_dir" THEN "history"
        ELSE "None"]

\* config.py lines 193-197: the keys of the file replace the defaults
_update_config(config, updates) ==
    [o \in Options |-> IF updates[o] = NotGiven THEN config[o] ELSE updates[o]]

\* config.py lines 173-191: the variables of the environment replace both
_load_from_env(config, env) ==
    [o \in Options |->
        IF env[o] = NotGiven THEN config[o]
        ELSE IF o \in FlagOptions
        THEN (IF env[o] \in {"true", "yes", "1", "on"} THEN "True" ELSE "False")
        ELSE (IF env[o] # "" THEN env[o] ELSE "None")]

\* config.py lines 37-57
_load_config(file, env) ==
    _load_from_env(_update_config(ConfigDefaults, file), env)

\* ShadowVendor.py lines 195-209: "Apply config defaults (CLI args take
\* precedence)"
ApplyConfigDefaults(args, config) ==
    [o \in Options |->
        IF o = "history_dir"
        THEN (IF args[o] = "history" /\ config[o] # "history"
              THEN config[o] ELSE args[o])
        ELSE IF Falsy(args[o]) THEN config[o] ELSE args[o]]

\* the command lines, configuration files and environments of a run
CommandLines ==
    { argv \in [Options -> {NotGiven, "True", "", "history", "archive", "DC1"}] :
        /\ \A o \in FlagOptions : argv[o] \in {NotGiven, "True"}
        /\ argv["history_dir"] \in {NotGiven, "history", "archive"}
        /\ argv["site"] \in {NotGiven, "", "DC1"}
        /\ argv["environment"] \in {NotGiven, "DC1"}
        /\ argv["change_ticket"] \in {NotGiven, "DC1"} }

NoSettings == [o \in Options |-> NotGiven]

ConfigFiles ==
    { NoSettings,
      [NoSettings EXCEPT !["history_dir"] = "snapshots", !["site"] = "HQ",
                         !["offline"] = "True"],
      [NoSettings EXCEPT !["history_dir"] = "history", !["environment"] = "prod",
                         !["siem_export"] = "True", !["analyze_drift"] = "False"] }

Environments ==
    { NoSettings,
      [NoSettings EXCEPT !["history_dir"] = "/var/history", !["site"] = "",
                         !["analyze_drift"] = "yes"],
      [NoSettings EXCEPT !["change_ticket"] = "CHG-1", !["offline"] = "0"] }

\* a run of ShadowVendor.py about to read its options
InitOptions ==
    /\ InitManager
    /\ cacheFile = AbsentFile
    /\ failedFile = AbsentKeysFile
    /\ called = "none"
    /\ callArg \in [argv : CommandLines, file : ConfigFiles, env : Environments]
    /\ callResult = NoCall

\* ShadowVendor.py lines 189-209: main reads its options
ReadOptions ==
    /\ CallFrame
    /\ called' = "main"
    /\ callResult' = ApplyConfigDefaults(parse_args(callArg.argv),
                                         _load_config(callArg.file, callArg.env))

----------------------------------------------------------------------------
(* format_mac_address of shadowvendor/core/netvendor.py, on characters.     *)
(* None and the empty string, which line 100 treats alike, are both <<>>.   *)

\* re.split(r'[/\s]', mac.strip())[0]: the characters before the first '/'
\* or white space
RECURSIVE FirstPart(_)
FirstPart(chars) ==
    IF chars = <<>> \/ Head(chars) \in {"/", " "} THEN <<>>
    ELSE <<Head(chars)>> \o FirstPart(Tail(chars))

\* netvendor.py lines 94-118
FormatMacChars(chars) ==
    IF chars = <<>> THEN <<>>
    ELSE LET mac_part == FirstPart(Strip(chars))
             dotted == \E i \in 1..Len(mac_part) : mac_part[i] = "."
             joined == IF dotted
                       THEN RemoveAll(Strip(mac_part), <<".">>)
                       ELSE RemoveAll(RemoveAll(LowerSeq(Strip(mac_part)), <<":">>),
                                      <<"-">>)
             mac_clean == SubSeq(joined, 1, Min(12, Len(joined)))
         IN  IF Len(joined) >= 12 THEN Grouped(mac_clean, 2, ":") ELSE <<>>

\* two ways of writing one address (six OUI digits, the device half AABBCC),
\* the first of them with or without a mask behind it
MacForms == [style : {"colon", "dash", "dot", "plain"}, lower : BOOLEAN]

InitMacForms ==
    /\ InitManager
    /\ cacheFile = AbsentFile
    /\ failedFile = AbsentKeysFile
    /\ called = "none"
    /\ callArg \in [oui : [1..6 -> {"0", "B"}], a : MacForms, b : MacForms,
                    mask : {<<>>, <<"/", "2", "4">>, <<"/", "f", "f", ".", "f", "f">>}]
    /\ callResult = NoCall

\* the program calls format_mac_address on both, and on what it returned
FormatMac ==
    /\ CallFrame
    /\ called' = "format_mac_address"
    /\ LET text(form) == MacText([oui |-> callArg.oui, style |-> form.style,
                                  lower |-> form.lower, defect |-> "none"])
       IN  callResult' =
               [a |-> FormatMacChars(text(callArg.a) \o callArg.mask),
                b |-> FormatMacChars(text(callArg.b)),
                again |-> FormatMacChars(
                              FormatMacChars(text(callArg.a) \o callArg.mask))]

----------------------------------------------------------------------------
(* get_vendor of the package's OUIManager, netvendor/core/oui_manager.py:   *)
(* a cache lookup without network.  Its keys and MACs are held as           *)
(* characters.                                                              *)

\* oui_manager.py lines 352-361: get_vendor(mac) on a manager with the given
\* cache and failed_lookups: the value returned and the set afterwards
PackageGetVendor(chars, cache_, failed_) ==
    IF chars \in failed_
    THEN [vendor |-> "None", failed_lookups |-> failed_]
    ELSE LET key == UpperSeq(SubSeq(chars, 1, Min(6, Len(chars))))
         IN  IF DictHas(cache_, key)
             THEN [vendor |-> DictGet(cache_, key), failed_lookups |-> failed_]
             ELSE [vendor |-> "None", failed_lookups |-> failed_ \cup {chars}]

\* a package manager (an empty cache or one entry, nothing failed yet or the
\* address itself) and an address to look up
InitPackage ==
    /\ InitManager
    /\ cacheFile = AbsentFile
    /\ failedFile = AbsentKeysFile
    /\ called = "none"
    /\ callArg \in
         { a \in [mac : MacArgs,
                  cache : {EmptyDict,
                           <<[key |-> <<"0", "0", "0", "0", "0", "0">>,
                              value |-> AppleVendor]>>},
                  known_failed : BOOLEAN] : a.mac.defect = "none" }
    /\ callResult = NoCall

\* the program calls the package manager's get_vendor(mac)
PackageLookup ==
    /\ CallFrame
    /\ called' = "package_get_vendor"
    /\ callResult' =
           PackageGetVendor(MacText(callArg.mac), callArg.cache,
                            IF callArg.known_failed THEN {MacText(callArg.mac)}
                            ELSE {})

----------------------------------------------------------------------------
(* Specifications *)

\* between two runs, oui_cache.json is left with content that is no object:
\* a write cut short, another tool's output, a change of permissions
ReplaceCacheFile ==
    /\ \/ pc = "idle" /\ procPc \in {"none", "done"}
       \/ pc = "aborted"
    /\ cacheFile' \in OtherCacheFiles
    /\ cacheFile' # cacheFile
    /\ lastOp' = "write"
    /\ UNCHANGED <<managerVars, failedFile, now, pc, caller, localVars, result,
                   batchVars, callHistory, lastRequestAt, lastPut, fileVars,
                   procVars, pureVars>>

\* The manager under get_vendor calls, with the clock running
Next ==
    \/ GetVendor
    \/ On200
    \/ On429
    \/ On404
    \/ OnOtherStatus
    \/ OnRequestException
    \/ Exhausted
    \/ Tick

Spec == Init /\ [][Next]_vars

\* The manager with forced saves, on a clock that only the sleeps advance
NextCache ==
    \/ GetVendor
    \/ On200
    \/ On429
    \/ On404
    \/ OnOtherStatus
    \/ OnRequestException
    \/ Exhausted
    \/ SaveCacheForce

SpecCache == Init /\ [][NextCache]_vars

\* The manager's file fingerprints, over an input file that is being written
NextFile ==
    \/ HasFileChanged
    \/ UpdateFileMetadata
    \/ AppendByte
    \/ OverwriteByte
    \/ TruncateByte
    \/ Touch
    \/ Restart

SpecFile == Init /\ [][NextFile]_vars

\* The manager's cache under puts, cleanups and forced saves, with services
\* that answer 200
NextSave ==
    \/ GetVendor
    \/ On200
    \/ Exhausted
    \/ CleanupCache
    \/ SaveCacheForce

SpecSave == Init /\ [][NextSave]_vars

\* Runs of process_vendor_devices over an input file that grows between them
NextProcess ==
    \/ ProcessStart
    \/ ReadLine
    \/ ProcessEnd
    \/ ProcessBatchReturned
    \/ ReadError
    \/ BatchNext
    \/ BatchReturn
    \/ On200
    \/ On429
    \/ On404
    \/ OnOtherStatus
    \/ OnRequestException
    \/ Exhausted
    \/ AppendByte
    \/ Restart

SpecProcess == Init /\ [][NextProcess]_vars

\* The manager with batch lookups, on a clock that only the sleeps advance
NextBatch ==
    \/ GetVendor
    \/ BatchLookup
    \/ BatchNext
    \/ BatchReturn
    \/ BatchDone
    \/ On200
    \/ On429
    \/ On404
    \/ OnOtherStatus
    \/ OnRequestException
    \/ Exhausted

SpecBatch == Init /\ [][NextBatch]_vars

\* _normalize_mac and _validate_mac, each called once on an address
SpecMac ==
    InitMacText /\ [][ NormalizeMac
                       \/ ValidateMac ]_vars

\* runs of the program over a data directory whose cache file is replaced
\* between them
SpecLoad ==
    Init /\ [][ GetVendor
                \/ On200
                \/ On404
                \/ Exhausted
                \/ ReplaceCacheFile
                \/ Restart ]_vars

\* runs of the program that look vendors up, one by one and in batches, and
\* clean the cache up
SpecKnown ==
    Init /\ [][ GetVendor
                \/ BatchLookup
                \/ BatchNext
                \/ BatchReturn
                \/ BatchDone
                \/ On200
                \/ On404
                \/ Exhausted
                \/ CleanupEarly
                \/ Restart ]_vars

\* analyze_file, called once on an input file
SpecAnalyze == InitInputFile /\ [][AnalyzeFile]_vars

\* main, reading its options once
SpecOptions == InitOptions /\ [][ReadOptions]_vars

\* format_mac_address, called on two forms of an address
SpecFormat == InitMacForms /\ [][FormatMac]_vars

\* the package manager's get_vendor, called once
SpecPackage == InitPackage /\ [][PackageLookup]_vars

----------------------------------------------------------------------------
(* Properties *)

\* this step sends an HTTP request (to service current_service_index, for oui)
RequestSent == httpCount' = httpCount + 1

\* this step is a call of get_vendor by the program (a step from idle that
\* leaves lastOp = "get_vendor" is such a call or the clock advancing)
GetVendorCalled == pc = "idle" /\ lastOp' = "get_vendor" /\ now' = now

\* C1: when a get_vendor call that went to the network has returned and every
\* request of it met a transport error, it has sent exactly 2 x (number of
\* services) = 4 requests, has returned "Unknown", and its OUI is in the
\* failed-lookup set.
C1_AllTransportErrors ==
    (pc = "idle" /\ path = "network" /\ onlyErrors)
        => /\ httpCount = 2 * ServiceCount
           /\ httpCount = 4
           /\ result = Returned("Unknown")
           /\ oui \in failed_lookups

C1_Witness ==
    /\ pc = "idle" /\ path = "network" /\ onlyErrors
    /\ httpCount = 4 /\ result = Returned("Unknown") /\ oui = OuiOther

\* C2: as soon as a request of a get_vendor call is answered 404, on whichever
\* attempt, the call has returned "Unknown" with its OUI in the failed-lookup
\* set, and no further request is sent in that call.
C2_NotFoundIsFinal ==
    [][ lastOutcome' = "404"
          => /\ pc' # "loop"
             /\ result' = Returned("Unknown")
             /\ oui' \in failed_lookups'
             /\ (lastOutcome = "404" => ~RequestSent) ]_vars

C2_Witness ==
    /\ lastOutcome = "404" /\ httpCount = 3 /\ pc = "idle"
    /\ result = Returned("Unknown") /\ oui \in failed_lookups

\* C3: no HTTP request is sent for an OUI that is in the failed-lookup set,
\* whether get_vendor is called by the program or by batch_lookup_vendors.
C3_NoRequestForFailedOui ==
    [][ RequestSent => oui \notin failed_lookups ]_vars

\* get_vendor called from the batch loop for an OUI that failed earlier in the
\* same batch: it returned without a request
C3_Witness ==
    /\ caller = "batch" /\ path = "failed" /\ httpCount = 0
    /\ oui \in failed_lookups /\ result = Returned("Unknown")

\* C4: get_vendor on a valid MAC whose OUI is in the cache returns the cached
\* vendor at once, with no HTTP request, and leaves the cache, the failed-lookup
\* set, the pending-write counter, the service cursor and every service's
\* interval and last-call timestamp unchanged.
C4_CacheHitFrame ==
    [][ (GetVendorCalled /\ _validate_mac(mac') /\ DictHas(cache, _normalize_mac(mac')))
          => /\ result' = Returned(DictGet(cache, _normalize_mac(mac')))
             /\ pc' = "idle"
             /\ httpCount' = 0
             /\ UNCHANGED <<cache, failed_lookups, pending_saves,
                            current_service_index, rate_limit, last_call>> ]_vars

\* the pre-seeded 00:1B:63 answered from the cache after an earlier call had
\* moved the cursor and raised an interval
C4_Witness ==
    /\ pc = "idle" /\ lastOp = "get_vendor" /\ path = "cache"
    /\ mac = "00:1B:63:AA:BB:CC" /\ result = Returned(AppleVendor)
    /\ httpCount = 0 /\ current_service_index = 1
    /\ rate_limit[0] > api_services[1].rate_limit

\* C5: after save_cache(force=True), a fresh load_cache() of the file maps the
\* key of the latest put to the vendor that was put.
C5_CacheRoundTrip ==
    (lastOp = "save_cache_force" /\ lastPut # NoPut)
        => /\ DictHas(LoadCache(cacheFile, EmptyDict), lastPut.key)
           /\ DictGet(LoadCache(cacheFile, EmptyDict), lastPut.key) = lastPut.value

\* C6: a request to a service that was sent a request before goes out at least
\* that service's current interval after the earlier one.
C6_RateLimitSeparation ==
    [][ (RequestSent /\ lastRequestAt[current_service_index] >= 0)
          => lastRequestAt'[current_service_index]
                - lastRequestAt[current_service_index]
                   >= rate_limit[current_service_index] ]_vars

\* the third request of a call: the second to its service, after a sleep
C6_Witness ==
    /\ httpCount = 3
    /\ lastRequestAt[original_service_index] >= InitialNow + api_services[1].rate_limit
    /\ pc = "loop"

\* C7: when a get_vendor call ends, every service's interval is its interval at
\* the start of the call times 1.5 for each 429 it answered during the call, and
\* every 429 moves the cursor to the next service.
C7_BackoffPer429 ==
    [][ /\ (pc = "loop" /\ pc' # "loop")
            => \A i \in ServiceIndex :
                  rate_limit'[i] * 2 ^ n429'[i] = rateAtStart'[i] * 3 ^ n429'[i]
        /\ (RequestSent /\ lastOutcome' = "429")
            => /\ current_service_index' = (current_service_index + 1) % ServiceCount
               /\ n429'[current_service_index] = n429[current_service_index] + 1
      ]_vars

\* a call that ended after one service answered 429 twice
C7_Witness ==
    /\ pc = "idle" /\ path = "network"
    /\ \E i \in ServiceIndex :
          n429[i] = 2 /\ 4 * rate_limit[i] = 9 * rateAtStart[i]

\* C8: an interval never falls below its initial value, never decreases, and
\* changes only when its own service answers 429; any request that does not end
\* the call moves the cursor on by one over the full list of services.
C8_IntervalOnlyGrowsOn429 ==
    [][ /\ \A i \in ServiceIndex :
              /\ rate_limit'[i] >= rate_limit[i]
              /\ rate_limit'[i] >= api_services[i + 1].rate_limit
              /\ rate_limit'[i] # rate_limit[i]
                    => (RequestSent /\ lastOutcome' = "429" /\ current_service_index = i)
        /\ DOMAIN rate_limit' = ServiceIndex
        /\ (RequestSent /\ pc' = "loop")
              => current_service_index' = (current_service_index + 1) % ServiceCount
      ]_vars

\* a transport error met after an interval was raised: the interval stays
C8_Witness ==
    /\ lastOutcome = "error" /\ pc = "loop"
    /\ rate_limit[0] > api_services[1].rate_limit
    /\ rate_limit[0] = rateAtStart[0]

\* C9: what get_vendor hands back is a returned non-empty string, never an
\* exception.
C9_AlwaysAVendor ==
    /\ result.kind # "raise"
    /\ result.kind = "return" => result.value # ""

\* C10: with a fingerprint recorded by update_file_metadata, every
\* has_file_changed call made while the file is untouched returns false (the
\* first and the second alike); after bytes were appended, or with the size,
\* the mtime or the hash differing from the recorded ones, it returns true;
\* and with no fingerprint recorded for the path it returns true.
C10_FingerprintDetectsChange ==
    /\ fileHistory = "untouched"
          => \A i \in 1..Len(returns) : returns[i] = FALSE
    /\ (lastOp = "has_file_changed" /\ fileHistory = "appended")
          => returns[Len(returns)] = TRUE
    /\ (lastOp = "has_file_changed" /\ DictHas(processed_files, ip_arp_file))
          => LET stored == DictGet(processed_files, ip_arp_file)
                 current == get_file_metadata(inputFile)
             IN  (\/ current.size # stored.size
                  \/ current.mtime # stored.mtime
                  \/ current.hash # stored.hash)
                     => returns[Len(returns)] = TRUE
    /\ (lastOp = "has_file_changed" /\ ~DictHas(processed_files, ip_arp_file))
          => returns[Len(returns)] = TRUE

\* two calls on the untouched file answered false, then one byte was appended
\* with the mtime kept and the bytes at both ends of the file as before, and
\* the third call answered true
C10_Witness ==
    /\ lastOp = "has_file_changed" /\ fileHistory = "appended"
    /\ returns = <<FALSE, FALSE, TRUE>>
    /\ DictHas(processed_files, ip_arp_file)
    /\ LET stored == DictGet(processed_files, ip_arp_file)
           current == get_file_metadata(inputFile)
       IN  /\ current.size = stored.size + 1
           /\ current.mtime = stored.mtime
           /\ current.hash = stored.hash

\* C11: processed_files changes, in memory or on disk, only in the step in
\* which process_vendor_devices returns, with every line of the file read and
\* no batch lookup running or still to make; a run that stops with an error
\* leaves processed_files, in memory and on disk, as it was when the run began,
\* and the run that follows it finds the file changed as the stopped run did.
\* (Nobody writes the file while it is being processed.)
C11_RecordOnlyAfterProcessing ==
    [][ /\ (processed_files' # processed_files \/ processedFile' # processedFile)
            => /\ lineNo >= Len(inputFile.content)
               /\ pc \in {"idle", "returned"}
               /\ unknown_macs = <<>>
               /\ (pc = "returned" \/ mac_batch = <<>>)
               /\ procPc # "done" /\ procPc' = "done" /\ pc' = "idle"
        /\ pc' = "aborted"
            => /\ processed_files' = runStart'.processed_files
               /\ processedFile' = runStart'.processedFile
        /\ (pc = "aborted" /\ pc' = "idle" /\ procPc # "none" /\ file_changed)
            => /\ processed_files' = runStart.processed_files
               /\ inputFile' = runStart.inputFile
               /\ has_file_changed(ip_arp_file)'
      ]_vars

\* a run made requests and stopped with an error, leaving no record; the run
\* after it found the file changed, read its three lines and recorded it
C11_Witness ==
    /\ procPc = "done" /\ pc = "idle" /\ file_changed
    /\ runStart.processed_files = EmptyDict
    /\ now > InitialNow
    /\ \A i \in ServiceIndex : lastRequestAt[i] = -1
    /\ Len(inputFile.content) = 3 /\ lineNo = 3
    /\ DictHas(processed_files, ip_arp_file)
    /\ DictGet(processed_files, ip_arp_file) = get_file_metadata(inputFile)

\* this step is get_vendor's self.cache[oui] = vendor and self.save_cache()
PutAndSave == RequestSent /\ cache' # cache

\* C12 (as amended): a put followed by save_cache() rewrites oui_cache.json
\* exactly when the counter before the call, which does not count that put,
\* has reached max_pending_saves = 50, and the write resets the counter to 0;
\* otherwise the counter goes up by one and the file is left as it is; and
\* save_cache(force=True) rewrites the file whatever the counter.
C12_WriteAfterThreshold ==
    [][ /\ PutAndSave
            => IF pending_saves >= max_pending_saves
               THEN pending_saves' = 0 /\ cacheFile' = WriteCacheFile(cache')
               ELSE pending_saves' = pending_saves + 1 /\ cacheFile' = cacheFile
        /\ (pc = "idle" /\ lastOp' = "save_cache_force")
            => /\ pending_saves' = 0
               /\ cacheFile' = WriteCacheFile(cache)
               /\ cache' = cache
      ]_vars

\* a get_vendor call that went to the network, put its vendor and wrote the file
C12_Witness ==
    /\ pc = "idle" /\ lastOp = "get_vendor" /\ path = "network"
    /\ lastPut # NoPut /\ result = Returned(lastPut.value)
    /\ pending_saves = 0
    /\ DictHas(LoadCache(cacheFile, EmptyDict), lastPut.key)

\* C12 (as stated): a put followed by save_cache() rewrites the file, and
\* resets the counter, exactly when the counter, counting that put, has
\* reached max_pending_saves = 50.
C12_WriteAtThreshold ==
    [][ PutAndSave
          => (pending_saves' = 0 <=> pending_saves + 1 >= max_pending_saves)
      ]_vars

\* C13: when batch_lookup_vendors returns, with or without a progress object,
\* its result has an entry for every MAC of its input list.
C13_EveryMacAnswered ==
    pc = "returned" => \A i \in 1..Len(macs) : DictHas(results, macs[i])

\* C14: MAC addresses that differ only in separator style or letter case are
\* given the same key by _normalize_mac: the six OUI digits, in upper case.
C14_SameOuiKey ==
    (called = "_normalize_mac" /\ callArg.defect = "none") =>
        /\ callResult = callArg.oui
        /\ Len(callResult) = 6
        /\ \A i \in 1..6 : callResult[i] \in HexUpper

C14_Witness ==
    /\ called = "_normalize_mac"
    /\ callArg = [oui |-> <<"0", "0", "1", "B", "B", "1">>, style |-> "dot",
                  lower |-> TRUE, defect |-> "none"]
    /\ callResult = <<"0", "0", "1", "B", "B", "1">>

\* C15: a MAC address that, its separators removed, is not exactly twelve hex
\* digits (too short, too long, a non-hex character anywhere) fails
\* _validate_mac.
C15_MalformedRejected ==
    (called = "_validate_mac" /\ callArg.defect # "none") => callResult = FALSE

\* C16: a manager constructed over an oui_cache.json that is no JSON object
\* (no JSON, closed to reading, a JSON array) has an empty cache and is ready
\* for use.
C16_LoadNeverFatal ==
    (lastOp = "__init__" /\ cacheFile.kind \notin {"absent", "object"}) =>
        (pc = "idle" /\ cache = EmptyDict)

\* C17: no entry of the cache maps its key to the empty string.
C17_NoEmptyVendor == "" \notin DictValues(cache)

C19_PortsIffMacTable ==
    (called = "analyze_file" /\ callResult.kind = "return") =>
        LET ports == Stem(callArg.name) \o PortsSuffix
        IN  /\ callResult.types = {callResult.input_type}
            /\ callResult.input_type \in {"mac_list", "arp_table", "mac_table"}
            /\ ports \in callResult.output_files
                 <=> callResult.input_type = "mac_table"
            /\ ports \in callResult.written
                 <=> callResult.input_type = "mac_table"

\* C20: every option given on the command line keeps the value given there,
\* and an option not given there has the value of the configuration (file
\* and environment).
C20_CommandLineFirst ==
    called = "main" =>
        \A o \in Options :
            IF callArg.argv[o] # NotGiven
            THEN callResult[o] = callArg.argv[o]
            ELSE callResult[o] = _load_config(callArg.file, callArg.env)[o]

\* C21: format_mac_address gives every way of writing one MAC address
\* (separator style, letter case, with or without a mask) the same
\* xx:xx:xx:xx:xx:xx string, and gives that string back when applied to it.
C21_OneFormIdempotent ==
    called = "format_mac_address" =>
        /\ Len(callResult.a) = 17
        /\ callResult.a = callResult.b
        /\ callResult.again = callResult.a

\* C22: the package manager's get_vendor, given a MAC whose OUI the cache does
\* not hold, returns None and leaves the MAC's OUI (its first three octets,
\* as written or normalized), not the whole MAC, in failed_lookups.
C22_OuiRecordedAsFailed ==
    LET text == MacText(callArg.mac)
        ouis == {NormalizeChars(text), SubSeq(text, 1, 6), SubSeq(text, 1, 8),
                 UpperSeq(SubSeq(text, 1, 6)), UpperSeq(SubSeq(text, 1, 8))}
    IN  (/\ called = "package_get_vendor"
         /\ ~DictHas(callArg.cache, UpperSeq(SubSeq(text, 1, 6)))) =>
            /\ callResult.vendor = "None"
            /\ callResult.failed_lookups \cap ouis # {}
            /\ text \notin callResult.failed_lookups

\* C23: a get_vendor call that goes to the network sends at most
\* 2 x (number of services) requests and ends in exactly one of two ways:
\* with a vendor, which is then in the cache, or with "Unknown" after a 404 or
\* an exhausted budget, its OUI then in the failed-lookup set.
C23_SuccessOrPermanentUnknown ==
    /\ httpCount <= 2 * ServiceCount
    /\ (pc # "loop" /\ path = "network") =>
          LET Success ==
                  /\ result.kind = "return"
                  /\ result.value # "Unknown"
                  /\ DictHas(cache, oui)
                  /\ DictGet(cache, oui) = result.value
              PermanentUnknown ==
                  /\ result = Returned("Unknown")
                  /\ oui \in failed_lookups
                  /\ (lastOutcome = "404" \/ httpCount = 2 * ServiceCount)
          IN  Success # PermanentUnknown

\* C24: a 200 whose parsed vendor is empty or the literal "Unknown" changes
\* neither the cache nor its file and does not end the call: one attempt is
\* used up, the cursor moves to the next service, and the loop goes on.
C24_EmptyVendorGoesOn ==
    [][ (RequestSent /\ lastOutcome' = "200 without vendor") =>
            /\ cache' = cache
            /\ cacheFile' = cacheFile
            /\ pending_saves' = pending_saves
            /\ failed_lookups' = failed_lookups
            /\ pc' = "loop"
            /\ result' = result
            /\ retries' = retries + 1
            /\ current_service_index' = (current_service_index + 1) % ServiceCount
      ]_vars

\* such an answer from the first service, and the second service is next
C24_Witness ==
    /\ pc = "loop"
    /\ httpCount = 1
    /\ retries = 1
    /\ lastOutcome = "200 without vendor"
    /\ current_service_index = 1
    /\ n429 = [i \in ServiceIndex |-> 0]
    /\ cache = EmptyDict
    /\ failed_lookups = {}

\* C25: within a get_vendor call the one-second pause is taken exactly when
\* the cursor is back where the call found it after a failed attempt, and
\* after each pause the call makes a further lap of attempts.
C25_PauseBeforeLap ==
    [][ (pc = "loop" /\ retries' = retries + 1) =>
            LET back == current_service_index' = original_service_index
            IN  /\ now' = _rate_limit(current_service_index)
                          + (IF back THEN TicksPerSecond ELSE 0)
                /\ back => (pc' = "loop" /\ retries' < max_retries)
      ]_vars

C26_WitnessGetVendor ==
    /\ lastOp = "get_vendor"
    /\ mac = "00:11:GG:33:44:55"
    /\ ~_validate_mac(mac)
    /\ result = Returned("Unknown")
    /\ httpCount = 0

C27_SkipOrLookUpAll ==
    [][ LET content == inputFile'.content
            MacLines == IF Len(content) > 0 /\ Head(content) = 1
                        THEN 3..Len(content)
                        ELSE 1..Len(content)
        IN /\ ( /\ procPc' \in {"reading", "lookup", "final_lookup", "done"}
                /\ procPc # "done"
                /\ pc # "aborted"
                /\ ~file_changed' ) =>
                   /\ ~RequestSent
                   /\ pc' \in {"idle", "aborted"}
                   /\ UNCHANGED <<cache, failed_lookups, processed_files,
                                  cacheFile, failedFile, processedFile>>
           /\ ( /\ procPc' = "done"
                /\ file_changed'
                /\ inputFile' = runStart'.inputFile ) =>
                   \A i \in MacLines :
                      ~DictHas(cache', _normalize_mac(LineMac(content[i])))
                         => LineMac(content[i]) \in passed_macs'
      ]_vars

\* C28: when get_vendor returns for a valid MAC, the MAC's OUI is in the
\* cache or in the failed-lookup set; until the run ends neither loses it;
\* and a request is only ever sent for an OUI that is in neither.  So the
\* requests for one OUI all belong to one get_vendor call of the run.
C28_OneLookupPerOui ==
    [][ LET GetVendorReturns ==
                /\ pc \in {"idle", "batch", "loop"}
                /\ pc' \in {"idle", "batch"}
                /\ lastOp' = "get_vendor"
                /\ result'.kind = "return"
            SameRun == lastOp' # "__init__"
            Known(c, f, o) == DictHas(c, o) \/ o \in f
        IN /\ (GetVendorReturns /\ _validate_mac(mac')) =>
                 /\ oui' = _normalize_mac(mac')
                 /\ Known(cache', failed_lookups', oui')
           /\ SameRun =>
                 \A m \in MacInputs :
                     (_validate_mac(m) /\ Known(cache, failed_lookups, _normalize_mac(m)))
                        => Known(cache', failed_lookups', _normalize_mac(m))
           /\ RequestSent =>
                 /\ oui = _normalize_mac(mac)
                 /\ ~Known(cache, failed_lookups, oui)
      ]_vars

\* a second MAC of an OUI that an earlier call of the run looked up on the
\* network is answered from the cache, without a request
C28_Witness ==
    /\ mac = "001b.6301.0203"
    /\ lastOp = "get_vendor"
    /\ path = "cache"
    /\ httpCount = 0
    /\ cacheFile = AbsentFile
    /\ DictHas(cache, "001B63")
    /\ result.kind = "return"
    /\ result.value # "Unknown"

\* C29: when a run ends, every entry that get_vendor or cleanup_cache has put
\* into the cache in memory is in oui_cache.json: the next run's manager,
\* which loads that file, holds the entry with the same vendor.
C29_PutsReachDisk ==
    [][ (pc = "idle" /\ lastOp' = "__init__") =>
            \A i \in 1..Len(cache) :
                /\ DictHas(cache', cache[i].key)
                /\ DictGet(cache', cache[i].key) = cache[i].value
      ]_vars

\* C30: when get_vendor returns, failed_lookups.json holds exactly the
\* failed-lookup set in memory (a missing file holds no key); a step that
\* adds a key writes the whole set to the file and is the step in which the
\* call returns; and until the run ends the set loses no key.
C30_FailedFileMirrorsSet ==
    [][ LET GetVendorReturns ==
                /\ pc \in {"idle", "batch", "loop"}
                /\ pc' \in {"idle", "batch"}
                /\ lastOp' = "get_vendor"
                /\ result'.kind = "return"
            SameRun == lastOp' # "__init__"
        IN /\ GetVendorReturns =>
                 LoadFailedLookups(failedFile', {}) = failed_lookups'
           /\ (SameRun /\ failed_lookups' # failed_lookups) =>
                 /\ failedFile' = ArrayFile(failed_lookups')
                 /\ GetVendorReturns
           /\ SameRun => failed_lookups \subseteq failed_lookups'
      ]_vars

\* get_vendor has returned after a 404 for a second OUI, and the file holds
\* both keys
C30_Witness ==
    /\ result = Returned("Unknown")
    /\ lastOutcome = "404"
    /\ pc = "idle"
    /\ failed_lookups = {OuiApple, OuiOther}
    /\ failedFile = ArrayFile({OuiApple, OuiOther})

====
